---- MODULE Spec2Model ----
(***************************************************************************)
(* Alpha-Ledger-Core: the execution simulation engine.                     *)
(*                                                                         *)
(*   OrderManager   (src/execution/order_manager.py)                       *)
(*   SlippageModel  (src/execution/slippage.py)                            *)
(*   IndianTaxModel (src/execution/fees.py)                                *)
(*   PositionSizer  (src/risk_engine/sizing.py)                            *)
(*   RiskCompliance (src/risk_engine/compliance.py)                        *)
(*   TradeLedger    (src/analytics/ledger.py)                              *)
(*   BacktestEngine (src/main.py)                                          *)
(*                                                                         *)
(* Numbers.  The program computes in floating point; the model computes    *)
(* the same expressions exactly.  A price is an integer number of price    *)
(* units, UnitsPerRupee units to the rupee.  Bar and order prices are      *)
(* multiples of PriceTick, which makes the 5 bps slippage factor exact.    *)
(* A money amount (fees, cash, equity, PnL) is a pair [w, f] standing for  *)
(* w + f / FeeScale price units with 0 <= f < FeeScale, which makes every  *)
(* fee rate exact.  Ratios are integers in units of 1/10000.               *)
(***************************************************************************)
EXTENDS Integers, Sequences, FiniteSets, TLC

(***************************************************************************)
(* Bounds of the model                                                     *)
(***************************************************************************)
MaxOrders == 2        \* orders a client of the OrderManager creates
MaxBars == 4          \* rows of backtest_df the simulation loop iterates

(***************************************************************************)
(* Units and program constants                                             *)
(***************************************************************************)
UnitsPerRupee == 20
PriceTick == 2000
FeeScale == 100000000
RatioScale == 10000
None == -1            \* Python None, outside every value range used here

BaseBps == 5                           \* SlippageModel(base_bps=5.0)
BrokeragePerOrder == 20 * UnitsPerRupee \* IndianTaxModel(brokerage_per_order=20.0)

Symbols == {"RELIANCE.NS", "TCS.NS"}
PriceLevels == {PriceTick, 2 * PriceTick}

(***************************************************************************)
(* Exact money arithmetic: [w, f] is w + f / FeeScale                      *)
(***************************************************************************)
Min(a, b) == IF a <= b THEN a ELSE b
Max(a, b) == IF a >= b THEN a ELSE b

MNorm(w, f) == [w |-> w + (f \div FeeScale), f |-> f % FeeScale]
MInt(n) == [w |-> n, f |-> 0]
MZero == MInt(0)
MAdd(a, b) == MNorm(a.w + b.w, a.f + b.f)
MNeg(a) == MNorm(-a.w, -a.f)
MSub(a, b) == MAdd(a, MNeg(b))
MLe(a, b) == a.w < b.w \/ (a.w = b.w /\ a.f <= b.f)
MLt(a, b) == a.w < b.w \/ (a.w = b.w /\ a.f < b.f)
MMin(a, b) == IF MLe(a, b) THEN a ELSE b
\* n * num / den for integers, den a divisor of FeeScale
MFrac(n, num, den) ==
    [w |-> (n * num) \div den, f |-> ((n * num) % den) * (FeeScale \div den)]
\* a * num / den for a money amount a >= 0 whose product is a whole number
\* of 1 / FeeScale units (num < 22, den a divisor of FeeScale)
MTimesFrac(a, num, den) ==
    MNorm((a.w * num) \div den,
          ((a.w * num) % den) * (FeeScale \div den) + ((a.f * num) \div den))

(***************************************************************************)
(* SlippageModel.calculate_fill_price                                      *)
(***************************************************************************)
\* SlippageModel(base_bps): base_slippage = base_bps / 10000.0, in units of
\* 1 / RatioScale
SlippageModel(base_bps) == [base_slippage |-> base_bps]

\* impact: the base slippage, doubled when a volatility above 1% (100 ratio
\* units) is given
SlippageImpact(self, volatility) ==
    IF volatility # None /\ volatility # 0 /\ volatility > 100
    THEN 2 * self.base_slippage ELSE self.base_slippage

calculate_fill_priceSwapped(self, target_price, side, volatility) ==
    IF side = "BUY"
    THEN (target_price * (RatioScale - SlippageImpact(self, volatility)))
            \div RatioScale
    ELSE (target_price * (RatioScale + SlippageImpact(self, volatility)))
            \div RatioScale

calculate_fill_price(self, target_price, side, volatility) ==
    IF side = "BUY"
    THEN (target_price * (RatioScale + SlippageImpact(self, volatility)))
            \div RatioScale
    ELSE (target_price * (RatioScale - SlippageImpact(self, volatility)))
            \div RatioScale

\* self.slippage_engine of the OrderManager
slippage_engine == SlippageModel(BaseBps)

(***************************************************************************)
(* IndianTaxModel.calculate                                                *)
(***************************************************************************)
Turnover(price, quantity) == price * quantity

Brokerage(turnover) ==
    MMin(MFrac(turnover, 3, 10000), MInt(BrokeragePerOrder))

Stt(turnover, side, asset_type) ==
    IF asset_type = "EQUITY" THEN MFrac(turnover, 1, 1000)
    ELSE IF asset_type = "INTRADAY" /\ side = "SELL"
         THEN MFrac(turnover, 25, 100000)
         ELSE MZero

ExchangeCharges(turnover) == MFrac(turnover, 345, 10000000)

SebiCharges(turnover) == MFrac(turnover, 1, 1000000)

StampDuty(turnover, side) ==
    IF side = "BUY" THEN MFrac(turnover, 15, 100000) ELSE MZero

GstOnAllCharges(turnover, side, asset_type) ==
    MTimesFrac(MAdd(MAdd(MAdd(MAdd(Brokerage(turnover),
                                   ExchangeCharges(turnover)),
                              SebiCharges(turnover)),
                         Stt(turnover, side, asset_type)),
                    StampDuty(turnover, side)), 18, 100)

Gst(turnover, side, asset_type) ==
    MTimesFrac(MAdd(MAdd(Brokerage(turnover), ExchangeCharges(turnover)),
                    SebiCharges(turnover)), 18, 100)

\* TradeCost.total_cost
calculate(price, quantity, side, asset_type) ==
    LET turnover == Turnover(price, quantity)
    IN  MAdd(MAdd(MAdd(MAdd(MAdd(Brokerage(turnover),
                                 Stt(turnover, side, asset_type)),
                            ExchangeCharges(turnover)),
                       SebiCharges(turnover)),
                  StampDuty(turnover, side)),
             Gst(turnover, side, asset_type))

\* TradeCost.breakdown
Breakdown(price, quantity, side, asset_type) ==
    LET turnover == Turnover(price, quantity)
    IN  [Turnover |-> turnover,
         Brokerage |-> Brokerage(turnover),
         STT |-> Stt(turnover, side, asset_type),
         Exchange_Charges |-> ExchangeCharges(turnover),
         Stamp_Duty |-> StampDuty(turnover, side),
         GST |-> Gst(turnover, side, asset_type),
         Total_Charges |-> calculate(price, quantity, side, asset_type)]

(***************************************************************************)
(* Natural numbers of any size, as little-endian digit lists, for the      *)
(* comparisons whose products do not fit the checker's integers            *)
(***************************************************************************)
Base == 10000

RECURSIVE BNat(_)
BNat(n) == IF n = 0 THEN <<>> ELSE <<n % Base>> \o BNat(n \div Base)

BDigit(a, i) == IF i <= Len(a) THEN a[i] ELSE 0

RECURSIVE BAddFrom(_, _, _, _)
BAddFrom(a, b, i, carry) ==
    IF i > Len(a) /\ i > Len(b)
    THEN BNat(carry)
    ELSE LET d == BDigit(a, i) + BDigit(b, i) + carry
         IN  <<d % Base>> \o BAddFrom(a, b, i + 1, d \div Base)

BAdd(a, b) == BAddFrom(a, b, 1, 0)

RECURSIVE BTimesDigit(_, _, _, _)
BTimesDigit(a, d, i, carry) ==
    IF i > Len(a)
    THEN BNat(carry)
    ELSE LET x == a[i] * d + carry
         IN  <<x % Base>> \o BTimesDigit(a, d, i + 1, x \div Base)

RECURSIVE BMul(_, _)
BMul(a, b) ==
    IF b = <<>> THEN <<>>
    ELSE BAdd(BTimesDigit(a, Head(b), 1, 0), <<0>> \o BMul(a, Tail(b)))

\* a <= b, comparing from digit i down
RECURSIVE BLeFrom(_, _, _)
BLeFrom(a, b, i) ==
    IF i = 0 THEN TRUE
    ELSE IF BDigit(a, i) < BDigit(b, i) THEN TRUE
    ELSE IF BDigit(a, i) > BDigit(b, i) THEN FALSE
    ELSE BLeFrom(a, b, i - 1)

BLe(a, b) == BLeFrom(a, b, Max(Len(a), Len(b)))

\* a money amount a >= 0 in units of 1 / FeeScale
BMoney(a) == BAdd(BMul(BNat(a.w), BNat(FeeScale)), BNat(a.f))

(***************************************************************************)
(* PositionSizer.calculate_quantity                                        *)
(***************************************************************************)
TargetVolatilityAnnual == 2000    \* PositionSizer(target_volatility_annual=0.20)

\* target_daily_vol = self.target_vol / np.sqrt(252)
TradingDays == 252

\* min(target_daily_vol / recent_volatility_daily, 1.0) is 1.0 iff
\* target / sqrt(252) >= vol, that is target^2 >= 252 * vol^2
ScalarIsCapped(target_vol, vol) ==
    BLe(BMul(BNat(TradingDays), BMul(BNat(vol), BNat(vol))),
        BMul(BNat(target_vol), BNat(target_vol)))

\* q * price <= amount * (target / 252) / vol: no square root
FitsAllocationLinear(q, amount, price, target_vol, vol) ==
    LET lhs == BMul(BMul(BNat(q), BNat(price)),
                    BMul(BNat(vol), BNat(FeeScale)))
        rhs == BMul(BMoney(amount), BNat(target_vol))
    IN  BLe(BMul(BNat(TradingDays), lhs), rhs)

\* q * price <= amount * (target / sqrt(252)) / vol for an amount >= 0:
\* 252 * (q * price * vol)^2 <= (amount * target)^2
FitsAllocation(q, amount, price, target_vol, vol) ==
    LET lhs == BMul(BMul(BNat(q), BNat(price)),
                    BMul(BNat(vol), BNat(FeeScale)))
        rhs == BMul(BMoney(amount), BNat(target_vol))
    IN  BLe(BMul(BNat(TradingDays), BMul(lhs, lhs)), BMul(rhs, rhs))

\* floor(amount * vol_scalar / price) with the scalar capped at 2.0
FloorAllocationTwice(amount, price, target_vol, vol) ==
    IF ScalarIsCapped(target_vol, vol)
    THEN (2 * amount.w) \div price
    ELSE CHOOSE q \in 0..(amount.w \div price) :
            /\ FitsAllocation(q, amount, price, target_vol, vol)
            /\ \/ q = amount.w \div price
               \/ ~FitsAllocation(q + 1, amount, price, target_vol, vol)

\* floor(amount * vol_scalar / price) for an amount >= 0
FloorAllocation(amount, price, target_vol, vol) ==
    IF ScalarIsCapped(target_vol, vol)
    THEN amount.w \div price
    ELSE CHOOSE q \in 0..(amount.w \div price) :
            /\ FitsAllocation(q, amount, price, target_vol, vol)
            /\ \/ q = amount.w \div price
               \/ ~FitsAllocation(q + 1, amount, price, target_vol, vol)

\* int(allocation_amount // price); a negative capital floors downwards
calculate_quantity(target_vol, capital, price, recent_volatility_daily) ==
    IF recent_volatility_daily <= 0 THEN 0
    ELSE IF MLe(MZero, capital)
    THEN FloorAllocation(capital, price, target_vol, recent_volatility_daily)
    ELSE LET amount == MNeg(capital)
             whole == FloorAllocation(amount, price, target_vol,
                                      recent_volatility_daily)
         IN  IF ScalarIsCapped(target_vol, recent_volatility_daily)
                /\ amount.f = 0 /\ amount.w % price = 0
             THEN -whole ELSE -(whole + 1)

(***************************************************************************)
(* RiskCompliance.check_trade_permission                                   *)
(***************************************************************************)
\* RiskCompliance(config): limits as ratios, absent keys take the defaults
RiskCompliance(config) ==
    [max_dd |-> IF "max_drawdown_limit" \in DOMAIN config
                THEN config["max_drawdown_limit"] ELSE 1500,
     max_sector |-> IF "max_sector_exposure" \in DOMAIN config
                    THEN config["max_sector_exposure"] ELSE 3000,
     max_pos |-> IF "max_positions" \in DOMAIN config
                 THEN config["max_positions"] ELSE 10]

\* |a| of a money amount
MAbs(a) == IF a.w < 0 THEN MNeg(a) ELSE a

\* new_exposure > self.max_sector, where new_exposure is
\* current_sector_alloc + trade_impact / total_capital in numpy arithmetic;
\* ratios in units of 1 / RatioScale
SectorLimitExceeded(alloc, trade_impact, total_capital, max_sector) ==
    LET room == max_sector - alloc
        impact == BMul(BMul(BNat(IF trade_impact < 0 THEN -trade_impact
                                 ELSE trade_impact),
                            BNat(RatioScale)), BNat(FeeScale))
        total == BMoney(MAbs(total_capital))
    IN  IF total_capital = MZero
        THEN \* x / 0.0: inf for x > 0, -inf for x < 0, nan for x = 0
             trade_impact > 0
        ELSE IF trade_impact = 0
        THEN room < 0
        ELSE IF (trade_impact > 0) = (total_capital.w >= 0)
        THEN \* a ratio > 0: |impact| / |total| > room
             room < 0 \/ ~BLe(impact, BMul(BNat(room), total))
        ELSE \* a ratio < 0: -|impact| / |total| > room
             room < 0 /\ ~BLe(BMul(BNat(-room), total), impact)

\* active_positions >= self.max_pos and proposed_trade['side'] == 'ENTRY'
PositionLimitReachedStrict(self, current_portfolio, proposed_trade) ==
    /\ current_portfolio.positions > self.max_pos
    /\ proposed_trade.side = "ENTRY"

PositionLimitReached(self, current_portfolio, proposed_trade) ==
    /\ current_portfolio.positions >= self.max_pos
    /\ proposed_trade.side = "ENTRY"

\* current_dd > self.max_dd
InCriticalDrawdown(self, current_portfolio) ==
    current_portfolio.current_drawdown > self.max_dd

\* the checks in another order: drawdown, positions, sector
check_trade_permissionDrawdownFirst(self, current_portfolio, proposed_trade) ==
    IF InCriticalDrawdown(self, current_portfolio)
    THEN [allowed |-> FALSE, reason |-> "Portfolio in critical drawdown"]
    ELSE IF PositionLimitReached(self, current_portfolio, proposed_trade)
    THEN [allowed |-> FALSE, reason |-> "Max positions reached"]
    ELSE IF proposed_trade.sector # ""
            /\ SectorLimitExceeded(current_portfolio.sector_allocation,
                                   proposed_trade.capital_impact,
                                   current_portfolio.total_equity,
                                   self.max_sector)
    THEN [allowed |-> FALSE, reason |-> "Sector Limit Exceeded"]
    ELSE [allowed |-> TRUE, reason |-> "Compliance Checks Passed"]

check_trade_permission(self, current_portfolio, proposed_trade) ==
    IF PositionLimitReached(self, current_portfolio, proposed_trade)
    THEN [allowed |-> FALSE, reason |-> "Max positions reached"]
    ELSE IF InCriticalDrawdown(self, current_portfolio)
    THEN [allowed |-> FALSE, reason |-> "Portfolio in critical drawdown"]
    ELSE IF proposed_trade.sector # ""    \* if target_sector: ("" for None)
            /\ SectorLimitExceeded(current_portfolio.sector_allocation,
                                   proposed_trade.capital_impact,
                                   current_portfolio.total_equity,
                                   self.max_sector)
    THEN [allowed |-> FALSE, reason |-> "Sector Limit Exceeded"]
    ELSE [allowed |-> TRUE, reason |-> "Compliance Checks Passed"]

(***************************************************************************)
(* TradeLedger.log_trade                                                   *)
(***************************************************************************)
GrossPnl(entry_price, exit_price, quantity, side) ==
    IF side = "LONG" THEN (exit_price - entry_price) * quantity
    ELSE (entry_price - exit_price) * quantity

\* return_pct is kept as the exact fraction num / den
log_trade(ticker, entry_date, exit_date, entry_price, exit_price, quantity, side, fees) ==
    LET gross_pnl == GrossPnl(entry_price, exit_price, quantity, side)
        net_pnl == MSub(MInt(gross_pnl), fees)
    IN  [ticker |-> ticker, side |-> side,
         entry_date |-> entry_date, exit_date |-> exit_date,
         entry_price |-> entry_price, exit_price |-> exit_price,
         quantity |-> quantity, fees |-> fees,
         gross_pnl |-> MInt(gross_pnl), net_pnl |-> net_pnl,
         return_pct |-> IF entry_price > 0
                        THEN [num |-> net_pnl, den |-> entry_price * quantity]
                        ELSE [num |-> MZero, den |-> 1]]

(***************************************************************************)
(* Market data                                                             *)
(***************************************************************************)
\* one candle: low <= open, close <= high
Bars ==
    {b \in [open : PriceLevels, high : PriceLevels,
            low : PriceLevels, close : PriceLevels] :
        /\ b.low <= b.open /\ b.open <= b.high
        /\ b.low <= b.close /\ b.close <= b.high}

\* market_data: Dict[str, Dict], a candle for some of the symbols
FlatBar == [open |-> PriceTick, high |-> PriceTick,
            low |-> PriceTick, close |-> PriceTick]
\* ... for the first symbol only, or for none
OneSymbolData ==
    {[s \in {} |-> FlatBar]} \cup {[s \in {"RELIANCE.NS"} |-> b] : b \in Bars}
\* ... for any of the symbols, the second one trading flat
MarketData ==
    OneSymbolData
    \cup {[s \in {"TCS.NS"} |-> FlatBar]}
    \cup {[s \in Symbols |-> IF s = "TCS.NS" THEN FlatBar ELSE b] : b \in Bars}

(***************************************************************************)
(* State                                                                   *)
(***************************************************************************)
VARIABLES
    orders,            \* every Order object created so far, by id
    open_orders,       \* OrderManager.open_orders, a list of order ids
    filled_orders,     \* OrderManager.filled_orders, a list of order ids
    evaluated,         \* the orders the last process_orders loop visited
    market,            \* the market_data of the last process_orders call
    wall,              \* the last reading of datetime.now()
    pc,                \* where BacktestEngine.run stands
    date,              \* the number of rows the loop has fetched
    row,               \* the current row of backtest_df
    cash,              \* BacktestEngine.cash
    equity,            \* BacktestEngine.equity
    holdings,          \* BacktestEngine.holdings
    portfolio_history, \* BacktestEngine.portfolio_history
    last_entry,        \* BacktestEngine.last_entry_price, last_entry_date
    trades,            \* TradeLedger.trades
    submitted_on,      \* for each order of the loop, the row that submitted it
    filled_on,         \* for each fill of the loop, <<order id, row>>
    call,              \* the arguments of a call of one of the pure methods
    result,            \* <<its return value>>, or <<>> before it returns
    replay             \* an earlier run of the loop, kept for comparison

omvars == <<orders, open_orders, filled_orders, evaluated, market, wall>>

btvars == <<pc, date, row, cash, equity, holdings, portfolio_history,
            last_entry, trades, submitted_on, filled_on>>

\* the variables the order manager and the engine leave alone
fnvars == <<call, result, replay>>

MaxWall == 1           \* readings of the wall clock are 0..MaxWall
WallTimes == 0..MaxWall

(***************************************************************************)
(* Order (dataclass)                                                       *)
(***************************************************************************)
Sides == {"BUY", "SELL"}

Order(id, symbol, quantity, side, order_type, price) ==
    [symbol |-> symbol, quantity |-> quantity, side |-> side,
     order_type |-> order_type, price |-> price,
     id |-> id, status |-> "OPEN", fill_price |-> 0,
     fill_time |-> None, fees |-> MZero]

(***************************************************************************)
(* OrderManager                                                            *)
(***************************************************************************)
\* list.remove(x): drop the first occurrence
RECURSIVE Remove(_, _)
Remove(list, x) ==
    IF list = <<>> THEN <<>>
    ELSE IF Head(list) = x THEN Tail(list)
    ELSE <<Head(list)>> \o Remove(Tail(list), x)

InList(list, x) == \E i \in 1..Len(list) : list[i] = x

OMInit ==
    /\ orders = <<>>
    /\ open_orders = <<>>
    /\ filled_orders = <<>>
    /\ evaluated = <<>>
    /\ market = <<>>
    /\ wall = 0

\* place_order: the state after it
RejectsNegativeOnly(order) == order.quantity < 0

Rejects(order) == order.quantity <= 0

place_order(st, order) ==
    IF Rejects(order)
    THEN [st EXCEPT !.orders = Append(@, [order EXCEPT !.status = "REJECTED"])]
    ELSE [st EXCEPT !.orders = Append(@, order),
                    !.open_orders = Append(@, order.id)]

\* the fill decision of process_orders for one order and its candle:
\* [is_fillable, execution_price]
NoFill == [is_fillable |-> FALSE, execution_price |-> 0]
Fill(p) == [is_fillable |-> TRUE, execution_price |-> p]

MarketRuleAtOpen(order, ticker_data) ==
    Fill(calculate_fill_price(slippage_engine, ticker_data.open, order.side, None))

MarketRule(order, ticker_data) ==
    Fill(calculate_fill_price(slippage_engine, ticker_data.close, order.side, None))

LimitBuyRuleStrict(order, ticker_data) ==
    IF ticker_data.low < order.price
    THEN Fill(Min(order.price, ticker_data.open)) ELSE NoFill

LimitBuyRule(order, ticker_data) ==
    IF ticker_data.low <= order.price
    THEN Fill(Min(order.price, ticker_data.open)) ELSE NoFill

LimitSellRuleAtLimit(order, ticker_data) ==
    IF ticker_data.high >= order.price
    THEN Fill(order.price) ELSE NoFill

LimitSellRule(order, ticker_data) ==
    IF ticker_data.high >= order.price
    THEN Fill(Max(order.price, ticker_data.open)) ELSE NoFill

StopRuleNoSlippage(order, ticker_data) ==
    IF order.side = "BUY" /\ ticker_data.high >= order.price
    THEN Fill(order.price)
    ELSE IF order.side = "SELL" /\ ticker_data.low <= order.price
    THEN Fill(order.price)
    ELSE NoFill

StopRule(order, ticker_data) ==
    IF order.side = "BUY" /\ ticker_data.high >= order.price
    THEN Fill(calculate_fill_price(slippage_engine, order.price, "BUY", None))
    ELSE IF order.side = "SELL" /\ ticker_data.low <= order.price
    THEN Fill(calculate_fill_price(slippage_engine, order.price, "SELL", None))
    ELSE NoFill

Evaluate(order, ticker_data) ==
    IF order.order_type = "MARKET" THEN MarketRule(order, ticker_data)
    ELSE IF order.order_type = "LIMIT" /\ order.side = "BUY"
         THEN LimitBuyRule(order, ticker_data)
    ELSE IF order.order_type = "LIMIT" /\ order.side = "SELL"
         THEN LimitSellRule(order, ticker_data)
    ELSE IF order.order_type = "STOP" THEN StopRule(order, ticker_data)
    ELSE NoFill

\* _execute_fill on the state st = [orders, open_orders, filled_orders]
_execute_fillKeepsOpen(st, id, price, now) ==
    LET order == st.orders[id]
        cost == calculate(price, order.quantity, order.side, "EQUITY")
    IN  [st EXCEPT !.orders[id] = [order EXCEPT !.status = "FILLED",
                                                !.fill_price = price,
                                                !.fees = cost,
                                                !.fill_time = now],
                   !.filled_orders = Append(@, id)]

_execute_fill(st, id, price, now) ==
    LET order == st.orders[id]
        cost == calculate(price, order.quantity, order.side, "EQUITY")
    IN  [st EXCEPT !.orders[id] = [order EXCEPT !.status = "FILLED",
                                                !.fill_price = price,
                                                !.fees = cost,
                                                !.fill_time = now],
                   !.open_orders = Remove(@, id),
                   !.filled_orders = Append(@, id)]

\* the k-th order of the loop `for order in self.open_orders[:]`:
\* the k-th element of the copy taken when the loop starts
IterTargetLive(snapshot, live, k) ==
    IF k <= Len(live) THEN live[k] ELSE None

IterTarget(snapshot, live, k) ==
    IF k <= Len(snapshot) THEN snapshot[k] ELSE None

\* one pass of the loop body for the k-th order
ProcessOneAnyCandle(st, id, market_data, now) ==
    LET order == st.orders[id]
    IN  IF DOMAIN market_data = {} THEN st
        ELSE LET r == Evaluate(order,
                          market_data[CHOOSE s \in DOMAIN market_data : TRUE])
             IN  IF r.is_fillable
                 THEN _execute_fill(st, id, r.execution_price, now)
                 ELSE st

ProcessOne(st, id, market_data, now) ==
    LET order == st.orders[id]
    IN  IF order.symbol \notin DOMAIN market_data THEN st
        ELSE LET r == Evaluate(order, market_data[order.symbol])
             IN  IF r.is_fillable
                 THEN _execute_fill(st, id, r.execution_price, now)
                 ELSE st

\* the loop of process_orders from its k-th iteration on; every fill of
\* the call reads the clock as now
RECURSIVE ProcessFrom(_, _, _, _, _)
ProcessFrom(k, snapshot, st, market_data, now) ==
    LET id == IterTarget(snapshot, st.open_orders, k)
    IN  IF id = None THEN st
        ELSE ProcessFrom(k + 1, snapshot,
                 [ProcessOne(st, id, market_data, now)
                     EXCEPT !.evaluated = Append(@, id)],
                 market_data, now)

process_orders(st, market_data, now) ==
    ProcessFrom(1, st.open_orders, [st EXCEPT !.evaluated = <<>>],
                market_data, now)

OMState ==
    [orders |-> orders, open_orders |-> open_orders,
     filled_orders |-> filled_orders, evaluated |-> evaluated]

(***************************************************************************)
(* Clients of the OrderManager: a client creates orders, submits them and  *)
(* has the book processed against candles.  Its calls are close enough in  *)
(* time to read the same value off the clock.                              *)
(***************************************************************************)
PlaceOrderFrom(kinds) ==
    /\ Len(orders) < MaxOrders
    /\ \E k \in kinds :
          LET order == Order(Len(orders) + 1, k[1], k[2], k[3], k[4], k[5])
              st == place_order(OMState, order)
          IN  /\ orders' = st.orders
              /\ open_orders' = st.open_orders
    /\ UNCHANGED <<filled_orders, evaluated, market, wall>>
    /\ UNCHANGED btvars
    /\ UNCHANGED fnvars

ProcessOrdersOn(snapshots) ==
    \E market_data \in snapshots :
        \E st \in {process_orders(OMState, market_data, wall)} :
            /\ orders' = st.orders
            /\ open_orders' = st.open_orders
            /\ filled_orders' = st.filled_orders
            /\ evaluated' = st.evaluated
            /\ market' = market_data
            /\ UNCHANGED wall
            /\ UNCHANGED btvars
            /\ UNCHANGED fnvars

\* a client with a mixed book on two symbols
MixedOrders ==
    {<<"RELIANCE.NS", 1, "BUY", "MARKET", None>>,
     <<"RELIANCE.NS", 1, "SELL", "MARKET", None>>,
     <<"RELIANCE.NS", 1, "BUY", "LIMIT", PriceTick>>,
     <<"RELIANCE.NS", 1, "SELL", "LIMIT", 2 * PriceTick>>,
     <<"RELIANCE.NS", 1, "BUY", "STOP", 2 * PriceTick>>,
     <<"RELIANCE.NS", 1, "SELL", "STOP", PriceTick>>,
     <<"RELIANCE.NS", 0, "BUY", "MARKET", None>>,
     <<"TCS.NS", 1, "BUY", "MARKET", None>>}

PlaceOrder == PlaceOrderFrom(MixedOrders)

ProcessOrders == ProcessOrdersOn(MarketData)

\* a client that trades LIMIT orders at every price level
LimitOrders ==
    {<<"RELIANCE.NS", 1, sd, "LIMIT", p>> : sd \in Sides, p \in PriceLevels}
    \cup {<<"RELIANCE.NS", -1, "BUY", "LIMIT", PriceTick>>}

PlaceLimitOrder == PlaceOrderFrom(LimitOrders)

ProcessLimitOrders == ProcessOrdersOn(OneSymbolData)

\* a client that trades STOP orders at every price level
StopOrders ==
    {<<"RELIANCE.NS", 1, sd, "STOP", p>> : sd \in Sides, p \in PriceLevels}
    \cup {<<"RELIANCE.NS", 0, "SELL", "STOP", PriceTick>>}

PlaceStopOrder == PlaceOrderFrom(StopOrders)

ProcessStopOrders == ProcessOrdersOn(OneSymbolData)

(***************************************************************************)
(* BacktestEngine                                                          *)
(***************************************************************************)
Ticker == "RELIANCE.NS"
InitialCapital == 5 * PriceTick     \* BacktestEngine(initial_capital=...)
EntryVolatility == 150              \* vol = 0.015 in _place_entry_order
Config == [max_drawdown_limit |-> 2000, max_sector_exposure |-> 10000]

Signals == {-1, 0, 1}
\* the rows of backtest_df.  The loop submits MARKET orders only, which
\* fill at the close: its candles are one trading flat at the lowest level
\* and one trading flat at four times that level.
SpikeBar == [open |-> 4 * PriceTick, high |-> 4 * PriceTick,
             low |-> 4 * PriceTick, close |-> 4 * PriceTick]
Rows == [bar : {FlatBar, SpikeBar}, signal : Signals]

BTInit ==
    /\ pc = "loop"
    /\ date = 0
    /\ row = <<>>
    /\ cash = MInt(InitialCapital)
    /\ equity = MZero
    /\ holdings = 0
    /\ portfolio_history = <<>>
    /\ last_entry = [price |-> None, date |-> None]
    /\ trades = <<>>
    /\ submitted_on = <<>>
    /\ filled_on = <<>>

\* the stages of one pass of the loop body, in the order run executes them:
\* fetch the row, A. process_orders, drain the filled queue, B. mark to
\* market, C. trading logic
AfterTradeFirst(stage) ==
    CASE stage = "loop" -> "trade"
      [] stage = "trade" -> "process"
      [] stage = "process" -> "drain"
      [] stage = "drain" -> "loop"

After(stage) ==
    CASE stage = "loop" -> "process"
      [] stage = "process" -> "drain"
      [] stage = "drain" -> "trade"
      [] stage = "trade" -> "loop"

\* _handle_fill on the portfolio p = [cash, holdings, last_entry, trades]
_handle_fillLogsEntry(p, order) ==
    LET cost == order.quantity * order.fill_price
        logged == Append(p.trades,
                      log_trade(Ticker, p.last_entry.date, order.fill_time,
                                p.last_entry.price, order.fill_price,
                                order.quantity, "LONG", order.fees))
    IN  IF order.side = "BUY"
        THEN [p EXCEPT !.cash = MSub(@, MAdd(MInt(cost), order.fees)),
                       !.holdings = @ + order.quantity,
                       !.last_entry = [price |-> order.fill_price,
                                       date |-> order.fill_time],
                       !.trades = logged]
        ELSE IF order.side = "SELL"
        THEN [p EXCEPT !.cash = MAdd(@, MSub(MInt(cost), order.fees)),
                       !.holdings = @ - order.quantity,
                       !.trades = logged]
        ELSE p

_handle_fill(p, order) ==
    LET cost == order.quantity * order.fill_price
    IN  IF order.side = "BUY"
        THEN [p EXCEPT !.cash = MSub(@, MAdd(MInt(cost), order.fees)),
                       !.holdings = @ + order.quantity,
                       !.last_entry = [price |-> order.fill_price,
                                       date |-> order.fill_time]]
        ELSE IF order.side = "SELL"
        THEN [p EXCEPT !.cash = MAdd(@, MSub(MInt(cost), order.fees)),
                       !.holdings = @ - order.quantity,
                       !.trades = Append(@,
                           log_trade(Ticker, p.last_entry.date,
                                     order.fill_time, p.last_entry.price,
                                     order.fill_price, order.quantity,
                                     "LONG", order.fees))]
        ELSE p

\* B. self.equity = self.cash + (self.holdings * current_price)
MarkToMarketCashOnly(c, h, current_price) == c

MarkToMarket(c, h, current_price) == MAdd(c, MInt(h * current_price))

\* target_qty = self.sizer.calculate_quantity(self.equity, price, vol)
EntryQuantity(eq, price) ==
    calculate_quantity(TargetVolatilityAnnual, eq, price, EntryVolatility)

\* int(allocation_amount // price) raises when the quotient is not finite
EntryRaises(eq, price) == price = 0

\* check = self.compliance.check_trade_permission(portfolio_state,
\*                                                 trade_proposal)
EntryCheck(eq, h, price) ==
    LET target_qty == EntryQuantity(eq, price)
        portfolio_state == [positions |-> IF h > 0 THEN 1 ELSE 0,
                            current_drawdown |-> 0,
                            sector_allocation |-> 0,
                            total_equity |-> eq]
        trade_proposal == [side |-> "ENTRY", sector |-> "Tech",
                           capital_impact |-> target_qty * price]
    IN  check_trade_permission(RiskCompliance(Config), portfolio_state,
                               trade_proposal)

\* _place_entry_order: the order manager state after it
_place_entry_orderUnsized(st, eq, h, price) ==
    LET target_qty == EntryQuantity(eq, price)
    IN  IF EntryCheck(eq, h, price).allowed
        THEN place_order(st, Order(Len(st.orders) + 1, Ticker, target_qty,
                                   "BUY", "MARKET", None))
        ELSE st

_place_entry_order(st, eq, h, price) ==
    LET target_qty == EntryQuantity(eq, price)
    IN  IF EntryCheck(eq, h, price).allowed /\ target_qty > 0
        THEN place_order(st, Order(Len(st.orders) + 1, Ticker, target_qty,
                                   "BUY", "MARKET", None))
        ELSE st

\* _place_exit_order
_place_exit_orderOtherSymbol(st, h) ==
    place_order(st, Order(Len(st.orders) + 1, "TCS.NS", h, "SELL", "MARKET",
                          None))

_place_exit_order(st, h) ==
    place_order(st, Order(Len(st.orders) + 1, Ticker, h, "SELL", "MARKET",
                          None))

\* C. TRADING LOGIC
TradingLogicShort(st, eq, h, r) ==
    IF st.open_orders # <<>> THEN st
    ELSE IF r.signal = 1 /\ h = 0
         THEN _place_entry_order(st, eq, h, r.bar.close)
    ELSE IF r.signal = -1 /\ h = 0
         THEN place_order(st, Order(Len(st.orders) + 1, Ticker, 1, "SELL",
                                    "MARKET", None))
    ELSE IF h > 0 /\ r.signal = -1 THEN _place_exit_order(st, h)
    ELSE st

TradingLogic(st, eq, h, r) ==
    IF st.open_orders # <<>> THEN st
    ELSE IF r.signal = 1 /\ h = 0
         THEN _place_entry_order(st, eq, h, r.bar.close)
    ELSE IF r.signal = -1 /\ h = 0 THEN st
    ELSE IF h > 0 /\ r.signal = -1 THEN _place_exit_order(st, h)
    ELSE st

\* for date, row in backtest_df.iterrows()
Fetch ==
    /\ UNCHANGED fnvars
    /\ pc = "loop"
    /\ date < MaxBars
    /\ \E r \in Rows : row' = r
    /\ date' = date + 1
    /\ pc' = After("loop")
    /\ UNCHANGED omvars
    /\ UNCHANGED <<cash, equity, holdings, portfolio_history, last_entry,
                   trades, submitted_on, filled_on>>

\* the rows are exhausted
Finish ==
    /\ UNCHANGED fnvars
    /\ pc = "loop"
    /\ pc' = "done"
    /\ UNCHANGED omvars
    /\ UNCHANGED <<date, row, cash, equity, holdings, portfolio_history,
                   last_entry, trades, submitted_on, filled_on>>

\* A. self.oms.process_orders(market_snapshot)
ProcessBar ==
    /\ UNCHANGED fnvars
    /\ pc = "process"
    /\ \E now \in IF open_orders = <<>> THEN {wall} ELSE {t \in WallTimes : t >= wall} :
          LET market_snapshot == [s \in {Ticker} |-> row.bar]
          IN  \E st \in {process_orders(OMState, market_snapshot, now)} :
              /\ orders' = st.orders
              /\ open_orders' = st.open_orders
              /\ filled_orders' = st.filled_orders
              /\ evaluated' = st.evaluated
              /\ market' = market_snapshot
              /\ wall' = now
              /\ filled_on' = filled_on \o
                    [i \in 1..(Len(st.filled_orders) - Len(filled_orders)) |->
                        <<st.filled_orders[Len(filled_orders) + i], date>>]
    /\ pc' = After("process")
    /\ UNCHANGED <<date, row, cash, equity, holdings, portfolio_history,
                   last_entry, trades, submitted_on>>

\* while self.oms.filled_orders: pop(0) and _handle_fill
DrainFill ==
    /\ UNCHANGED fnvars
    /\ pc = "drain"
    /\ filled_orders # <<>>
    /\ LET p == _handle_fill([cash |-> cash, holdings |-> holdings,
                              last_entry |-> last_entry, trades |-> trades],
                             orders[Head(filled_orders)])
       IN  /\ cash' = p.cash
           /\ holdings' = p.holdings
           /\ last_entry' = p.last_entry
           /\ trades' = p.trades
    /\ filled_orders' = Tail(filled_orders)
    /\ UNCHANGED <<orders, open_orders, evaluated, market, wall>>
    /\ UNCHANGED <<pc, date, row, equity, portfolio_history, submitted_on,
                   filled_on>>

\* B. PORTFOLIO MARK-TO-MARKET, once the queue is empty
Mark ==
    /\ UNCHANGED fnvars
    /\ pc = "drain"
    /\ filled_orders = <<>>
    /\ equity' = MarkToMarket(cash, holdings, row.bar.close)
    /\ portfolio_history' =
          Append(portfolio_history, [date |-> date, equity |-> equity'])
    /\ pc' = After("drain")
    /\ UNCHANGED omvars
    /\ UNCHANGED <<date, row, cash, holdings, last_entry, trades,
                   submitted_on, filled_on>>

\* the trading logic of the row calls _place_entry_order
IsEntry(st, h, r) == st.open_orders = <<>> /\ r.signal = 1 /\ h = 0

\* C. TRADING LOGIC; an exception leaves run
Trade ==
    /\ UNCHANGED fnvars
    /\ pc = "trade"
    /\ \E st \in {TradingLogic(OMState, equity, holdings, row)} :
           /\ orders' = st.orders
           /\ open_orders' = st.open_orders
           /\ submitted_on' = submitted_on \o
                 [i \in 1..(Len(st.orders) - Len(orders)) |-> date]
    /\ pc' = IF IsEntry(OMState, holdings, row)
                /\ EntryRaises(equity, row.bar.close)
             THEN "aborted" ELSE After("trade")
    /\ UNCHANGED <<filled_orders, evaluated, market, wall>>
    /\ UNCHANGED <<date, row, cash, equity, holdings, portfolio_history,
                   last_entry, trades, filled_on>>

(***************************************************************************)
(* Two runs of the loop over one backtest_df.  The earlier run is kept in  *)
(* replay, a row at a time; the later run is the engine above, fetching    *)
(* the rows the earlier run has gone through.  Each run reads its own      *)
(* clock.                                                                  *)
(***************************************************************************)
\* the rows of the replayed backtest_df: flat candles, a signal to enter
\* or to leave
ReplayRows == [bar : {FlatBar}, signal : {-1, 1}]

\* the earlier run after construction
ReplayInit ==
    [df |-> <<>>,
     oms |-> [orders |-> <<>>, open_orders |-> <<>>, filled_orders |-> <<>>,
              evaluated |-> <<>>],
     portfolio |-> [cash |-> MInt(InitialCapital), holdings |-> 0,
                    last_entry |-> [price |-> None, date |-> None],
                    trades |-> <<>>],
     equity |-> MZero,
     portfolio_history |-> <<>>,
     wall |-> 0]

\* while self.oms.filled_orders: pop(0) and _handle_fill, to the end
RECURSIVE HandleFills(_, _, _)
HandleFills(p, all_orders, queue) ==
    IF queue = <<>> THEN p
    ELSE HandleFills(_handle_fill(p, all_orders[Head(queue)]), all_orders,
                     Tail(queue))

\* one pass of the loop body of run, for the row r, the clock reading now
RunRow(s, r, now) ==
    LET processed == process_orders(s.oms, [t \in {Ticker} |-> r.bar], now)
        p == HandleFills(s.portfolio, processed.orders,
                         processed.filled_orders)
        eq == MarkToMarket(p.cash, p.holdings, r.bar.close)
    IN  [df |-> Append(s.df, r),
         oms |-> TradingLogic([processed EXCEPT !.filled_orders = <<>>],
                              eq, p.holdings, r),
         portfolio |-> p,
         equity |-> eq,
         portfolio_history |->
             Append(s.portfolio_history,
                    [date |-> Len(s.df) + 1, equity |-> eq]),
         wall |-> now]

ReplayStart ==
    /\ call = <<>>
    /\ result = <<>>
    /\ replay = ReplayInit

\* the earlier run goes through one more row
ReplayRow ==
    /\ pc = "loop" /\ date = 0
    /\ Len(replay.df) < MaxBars
    /\ \E r \in ReplayRows :
          \E now \in IF replay.oms.open_orders = <<>> THEN {replay.wall}
                     ELSE {t \in WallTimes : t >= replay.wall} :
              replay' = RunRow(replay, r, now)
    /\ UNCHANGED <<omvars, btvars, call, result>>

\* the later run fetches the next row of the same backtest_df
FetchReplayed ==
    /\ date < Len(replay.df)
    /\ Fetch
    /\ row' = replay.df[date + 1]

\* the later run is through the backtest_df
FinishReplayed ==
    /\ date = Len(replay.df)
    /\ Finish

(***************************************************************************)
(* Calls of the pure methods: call holds the arguments of one call, drawn  *)
(* when the behaviour starts, and the call returns its value in result     *)
(***************************************************************************)
\* RiskCompliance(config).check_trade_permission(current_portfolio,
\* proposed_trade); "" is a proposal without a sector
GateConfigs ==
    {<<>>, Config,
     [max_drawdown_limit |-> 1500, max_sector_exposure |-> 3000,
      max_positions |-> 2]}

GateCalls ==
    [fn : {"check_trade_permission"},
     config : GateConfigs,
     current_portfolio : [positions : {0, 2, 9, 10, 11},
                          current_drawdown : {0, 1500, 1501, 2001},
                          sector_allocation : {0, 2000},
                          total_equity : {MInt(5 * PriceTick),
                                          MInt(PriceTick + 500)}],
     proposed_trade : [side : {"ENTRY", "EXIT"},
                       sector : {"", "Tech"},
                       capital_impact : {0, 500, 3000}]]

\* PositionSizer(target_vol).calculate_quantity(capital, price,
\* recent_volatility_daily); the last call is the one of 1,000,000 rupees
\* at 2500 rupees a share and 2% daily volatility
SizerCalls ==
    [fn : {"calculate_quantity"},
     target_vol : {1000, TargetVolatilityAnnual},
     capital : {MZero, MInt(PriceTick - 1), MInt(5 * PriceTick),
                [w |-> 5 * PriceTick - 1, f |-> FeeScale \div 2]},
     price : PriceLevels,
     recent_volatility_daily : {-100, 0, 1, 100, 126, 150, 200, 10000}]
    \cup {[fn |-> "calculate_quantity",
           target_vol |-> TargetVolatilityAnnual,
           capital |-> MInt(1000000 * UnitsPerRupee),
           price |-> 2500 * UnitsPerRupee,
           recent_volatility_daily |-> 200]}

\* SlippageModel(base_bps).calculate_fill_price(target_price, side,
\* volatility)
SlippageCalls ==
    [fn : {"calculate_fill_price"},
     base_bps : {0, BaseBps, 10, RatioScale},
     target_price : PriceLevels \cup {25 * PriceTick},
     side : Sides,
     volatility : {None, 0, 50, 100, 150, 500}]

\* IndianTaxModel().calculate(price, quantity, side, asset_type); a price
\* of 100,000 rupees makes a turnover of 100,000 rupees with one share
CostCalls ==
    [fn : {"calculate"},
     price : {PriceTick, 2 * PriceTick, 3 * PriceTick, 8 * PriceTick,
              100000 * UnitsPerRupee},
     quantity : {1, 2, 3},
     side : Sides,
     asset_type : {"EQUITY", "INTRADAY"}]

Calls == GateCalls \cup SizerCalls \cup SlippageCalls \cup CostCalls

CallsInit ==
    /\ call \in Calls
    /\ result = <<>>
    /\ replay = <<>>

CheckTradePermission ==
    /\ call.fn = "check_trade_permission"
    /\ result = <<>>
    /\ result' = <<check_trade_permission(RiskCompliance(call.config),
                                          call.current_portfolio,
                                          call.proposed_trade)>>
    /\ UNCHANGED <<omvars, btvars, call, replay>>

CalculateQuantity ==
    /\ call.fn = "calculate_quantity"
    /\ result = <<>>
    /\ result' = <<calculate_quantity(call.target_vol, call.capital,
                                      call.price,
                                      call.recent_volatility_daily)>>
    /\ UNCHANGED <<omvars, btvars, call, replay>>

CalculateFillPrice ==
    /\ call.fn = "calculate_fill_price"
    /\ result = <<>>
    /\ result' = <<calculate_fill_price(SlippageModel(call.base_bps),
                                        call.target_price, call.side,
                                        call.volatility)>>
    /\ UNCHANGED <<omvars, btvars, call, replay>>

Calculate ==
    /\ call.fn = "calculate"
    /\ result = <<>>
    /\ result' = <<[total_cost |-> calculate(call.price, call.quantity,
                                             call.side, call.asset_type),
                    breakdown |-> Breakdown(call.price, call.quantity,
                                            call.side, call.asset_type)]>>
    /\ UNCHANGED <<omvars, btvars, call, replay>>

vars == <<omvars, btvars, fnvars>>

\* no call of a pure method is under way, and there is no earlier run
FnInit ==
    /\ call = <<>>
    /\ result = <<>>
    /\ replay = <<>>

Init == OMInit /\ BTInit /\ FnInit

Next == PlaceOrder \/ ProcessOrders

Spec == Init /\ [][Next]_vars

NextLimit == PlaceLimitOrder \/ ProcessLimitOrders

SpecLimit == Init /\ [][NextLimit]_vars

NextStop == PlaceStopOrder \/ ProcessStopOrders

SpecStop == Init /\ [][NextStop]_vars

NextRun == Fetch \/ ProcessBar \/ DrainFill \/ Mark \/ Trade \/ Finish

SpecRun == Init /\ [][NextRun]_vars

NextReplay ==
    ReplayRow \/ FetchReplayed \/ ProcessBar \/ DrainFill \/ Mark \/ Trade
        \/ FinishReplayed

InitReplay == OMInit /\ BTInit /\ ReplayStart

SpecReplay == InitReplay /\ [][NextReplay]_vars

NextCalls ==
    CheckTradePermission \/ CalculateQuantity \/ CalculateFillPrice
        \/ Calculate

InitCalls == OMInit /\ BTInit /\ CallsInit

SpecCalls == InitCalls /\ [][NextCalls]_vars

(***************************************************************************)
(* Properties                                                              *)
(***************************************************************************)
Ids == 1..Len(orders)

IndexOf(list, x) == CHOOSE i \in 1..Len(list) : list[i] = x

\* the step is a call of process_orders (no order is created)
IsProcessCall == Len(orders') = Len(orders) /\ pc' = pc

\* the candle the last call had for the order, if any
HadCandle(id) == orders[id].symbol \in DOMAIN market
Candle(id) == market[orders[id].symbol]

\* C1: an order whose quantity is <= 0 is REJECTED by place_order, is never
\* in the open set and never in the filled queue, whatever calls of
\* place_order and process_orders follow.
C1_RejectedNeverOpens ==
    \A id \in Ids :
        orders[id].quantity <= 0 =>
            /\ orders[id].status = "REJECTED"
            /\ ~InList(open_orders, id)
            /\ ~InList(filled_orders, id)
            /\ orders[id].fill_price = 0

\* a rejected order, and a later order that a later call has filled
C1_Witness ==
    \E i, j \in Ids :
        /\ i < j
        /\ orders[i].quantity <= 0
        /\ orders[j].status = "FILLED"

\* C2: in the simulation loop an order submitted on row t is never filled
\* on row t: every fill happens on a later row, and when the trading logic
\* of a row runs, the row's candle has been processed and the filled queue
\* has been drained.
C2_NoSameBarFill ==
    /\ \A i \in 1..Len(filled_on) :
          submitted_on[filled_on[i][1]] < filled_on[i][2]
    /\ pc = "trade" =>
          /\ filled_orders = <<>>
          /\ market = [s \in {Ticker} |-> row.bar]
          /\ \A i \in 1..Len(submitted_on) : submitted_on[i] < date

\* an order filled on the row after the one that submitted it
C2_Witness ==
    \E i \in 1..Len(filled_on) :
        filled_on[i][2] = submitted_on[filled_on[i][1]] + 1

\* C3: a BUY fill followed by a full-quantity SELL fill gives exactly one
\* TradeRecord, with the quantity of the SELL fill and a net PnL of
\* (exit price - entry price) * quantity minus the fees of both fills.
C3_RoundTripRecord ==
    /\ Len(trades) =
          Cardinality({i \in 1..Len(filled_on) :
              /\ orders[filled_on[i][1]].side = "SELL"
              /\ ~InList(filled_orders, filled_on[i][1])})
    /\ \A i \in 1..Len(trades) :
          LET buy == orders[filled_on[2 * i - 1][1]]
              sell == orders[filled_on[2 * i][1]]
          IN  /\ buy.side = "BUY" /\ sell.side = "SELL"
              /\ sell.quantity = buy.quantity
              /\ trades[i].quantity = sell.quantity
              /\ trades[i].net_pnl =
                    MSub(MInt((sell.fill_price - buy.fill_price)
                              * sell.quantity),
                         MAdd(buy.fees, sell.fees))

\* C4: a MARKET order that is open when process_orders is called with a
\* candle for its symbol is filled by that call, a BUY at close * 1.0005
\* and a SELL at close * 0.9995; a BUY on a close of 100 rupees fills at
\* 100.05 rupees.
C4_MarketFillsAtClose ==
    \A k \in 1..Len(evaluated) :
        LET id == evaluated[k]
        IN  (orders[id].order_type = "MARKET" /\ HadCandle(id)) =>
              /\ orders[id].status = "FILLED"
              /\ orders[id].side = "BUY" =>
                    orders[id].fill_price * 10000 = Candle(id).close * 10005
              /\ orders[id].side = "SELL" =>
                    orders[id].fill_price * 10000 = Candle(id).close * 9995
              /\ (orders[id].side = "BUY"
                    /\ Candle(id).close = 100 * UnitsPerRupee) =>
                    orders[id].fill_price * 100 = 10005 * UnitsPerRupee

\* a MARKET BUY filled against a close of 100 rupees
C4_Witness ==
    \E k \in 1..Len(evaluated) :
        /\ orders[evaluated[k]].order_type = "MARKET"
        /\ orders[evaluated[k]].side = "BUY"
        /\ HadCandle(evaluated[k])
        /\ Candle(evaluated[k]).close = 100 * UnitsPerRupee
        /\ orders[evaluated[k]].status = "FILLED"

\* C5: an open LIMIT BUY order with limit L is filled by a call iff the
\* candle's low is <= L, and then at min(L, open).
C5_LimitBuy ==
    \A k \in 1..Len(evaluated) :
        LET id == evaluated[k]
        IN  (orders[id].order_type = "LIMIT" /\ orders[id].side = "BUY"
                /\ HadCandle(id)) =>
              /\ orders[id].status = "FILLED"
                    <=> Candle(id).low <= orders[id].price
              /\ orders[id].status = "FILLED" =>
                    orders[id].fill_price =
                        IF orders[id].price <= Candle(id).open
                        THEN orders[id].price ELSE Candle(id).open

\* a LIMIT BUY filled at an open below its limit
C5_Witness ==
    \E k \in 1..Len(evaluated) :
        /\ orders[evaluated[k]].order_type = "LIMIT"
        /\ orders[evaluated[k]].side = "BUY"
        /\ orders[evaluated[k]].status = "FILLED"
        /\ HadCandle(evaluated[k])
        /\ Candle(evaluated[k]).open < orders[evaluated[k]].price
        /\ orders[evaluated[k]].fill_price = Candle(evaluated[k]).open

\* C6: an open LIMIT SELL order with limit L is filled by a call iff the
\* candle's high is >= L, and then at max(L, open).
C6_LimitSell ==
    \A k \in 1..Len(evaluated) :
        LET id == evaluated[k]
        IN  (orders[id].order_type = "LIMIT" /\ orders[id].side = "SELL"
                /\ HadCandle(id)) =>
              /\ orders[id].status = "FILLED"
                    <=> Candle(id).high >= orders[id].price
              /\ orders[id].status = "FILLED" =>
                    orders[id].fill_price =
                        IF orders[id].price >= Candle(id).open
                        THEN orders[id].price ELSE Candle(id).open

\* a LIMIT SELL filled at an open above its limit
C6_Witness ==
    \E k \in 1..Len(evaluated) :
        /\ orders[evaluated[k]].order_type = "LIMIT"
        /\ orders[evaluated[k]].side = "SELL"
        /\ orders[evaluated[k]].status = "FILLED"
        /\ HadCandle(evaluated[k])
        /\ Candle(evaluated[k]).open > orders[evaluated[k]].price
        /\ orders[evaluated[k]].fill_price = Candle(evaluated[k]).open

\* C7: an open STOP BUY order is filled by a call iff the candle's high is
\* >= stop, at stop * 1.0005; an open STOP SELL order iff the candle's low
\* is <= stop, at stop * 0.9995.
C7_Stop ==
    \A k \in 1..Len(evaluated) :
        LET id == evaluated[k]
        IN  (orders[id].order_type = "STOP" /\ HadCandle(id)) =>
              /\ orders[id].side = "BUY" =>
                    /\ orders[id].status = "FILLED"
                          <=> Candle(id).high >= orders[id].price
                    /\ orders[id].status = "FILLED" =>
                          orders[id].fill_price * 10000
                              = orders[id].price * 10005
              /\ orders[id].side = "SELL" =>
                    /\ orders[id].status = "FILLED"
                          <=> Candle(id).low <= orders[id].price
                    /\ orders[id].status = "FILLED" =>
                          orders[id].fill_price * 10000
                              = orders[id].price * 9995

\* a STOP BUY and a STOP SELL of one call, the one filled and the other not
C7_Witness ==
    \E j, k \in 1..Len(evaluated) :
        /\ orders[evaluated[j]].order_type = "STOP"
        /\ orders[evaluated[j]].side = "BUY"
        /\ orders[evaluated[j]].status = "FILLED"
        /\ orders[evaluated[k]].order_type = "STOP"
        /\ orders[evaluated[k]].side = "SELL"
        /\ orders[evaluated[k]].status = "OPEN"
        /\ HadCandle(evaluated[k])

Ascending(list) ==
    \A i, j \in 1..Len(list) : i < j => list[i] < list[j]

\* C8: a call of process_orders visits every order that is open when the
\* call starts exactly once, in submission order, also when earlier orders
\* fill and leave the open set during the call; the call appends its fills
\* to the filled queue in submission order and leaves the others open.
C8_FifoEvaluation ==
    /\ [](Ascending(open_orders))
    /\ [][IsProcessCall =>
            /\ evaluated' = open_orders
            /\ filled_orders' = filled_orders \o
                  SelectSeq(open_orders,
                            LAMBDA id : orders'[id].status = "FILLED")
            /\ open_orders' =
                  SelectSeq(open_orders,
                            LAMBDA id : orders'[id].status = "OPEN")]_vars

\* a call that visited two orders and filled both, the first one first
C8_Witness ==
    /\ Len(evaluated) >= 2
    /\ Len(filled_orders) >= 2
    /\ orders[evaluated[1]].status = "FILLED"
    /\ orders[evaluated[2]].status = "FILLED"
    /\ filled_orders[Len(filled_orders) - 1] = evaluated[1]
    /\ filled_orders[Len(filled_orders)] = evaluated[2]

\* the fill condition of an order on a candle, by order type and side
ConditionMet(order, ticker_data) ==
    \/ order.order_type = "MARKET"
    \/ /\ order.order_type = "LIMIT" /\ order.side = "BUY"
       /\ ticker_data.low <= order.price
    \/ /\ order.order_type = "LIMIT" /\ order.side = "SELL"
       /\ ticker_data.high >= order.price
    \/ /\ order.order_type = "STOP" /\ order.side = "BUY"
       /\ ticker_data.high >= order.price
    \/ /\ order.order_type = "STOP" /\ order.side = "SELL"
       /\ ticker_data.low <= order.price

\* the call with market_data has no candle that fills the order
Unmet(order, market_data) ==
    \/ order.symbol \notin DOMAIN market_data
    \/ ~ConditionMet(order, market_data[order.symbol])

\* C9 as stated: an open order whose fill condition the candle does not
\* meet, or whose symbol has no candle, is left unchanged by the call, OPEN
\* with fill price 0 and fees 0, at the same index of the open list.
C9_UnfilledKeepsIndex ==
    [][IsProcessCall =>
        \A k \in 1..Len(open_orders) :
            Unmet(orders[open_orders[k]], market') =>
                /\ orders'[open_orders[k]] = orders[open_orders[k]]
                /\ orders'[open_orders[k]].status = "OPEN"
                /\ orders'[open_orders[k]].fill_price = 0
                /\ orders'[open_orders[k]].fees = MZero
                /\ k <= Len(open_orders')
                /\ open_orders'[k] = open_orders[k]]_vars

\* C9 as amended: such an order is left unchanged by the call, OPEN with
\* fill price 0 and fees 0, and stays in the open list behind the same
\* orders as before: its index drops by the number of orders ahead of it
\* that the call filled.  Every call visits it again; nothing expires.
C9_UnfilledKeepsOrder ==
    [][IsProcessCall =>
        \A k \in 1..Len(open_orders) :
            Unmet(orders[open_orders[k]], market') =>
                /\ orders'[open_orders[k]] = orders[open_orders[k]]
                /\ orders'[open_orders[k]].status = "OPEN"
                /\ orders'[open_orders[k]].fill_price = 0
                /\ orders'[open_orders[k]].fees = MZero
                /\ InList(evaluated', open_orders[k])
                /\ InList(open_orders', open_orders[k])
                /\ IndexOf(open_orders', open_orders[k]) =
                      k - Cardinality({j \in 1..(k - 1) :
                              orders'[open_orders[j]].status = "FILLED"})]_vars

\* a call that filled an order and left open one that was behind it, for
\* want of a candle or of a price
C9_Witness ==
    \E j, k \in 1..Len(evaluated) :
        /\ j < k
        /\ orders[evaluated[j]].status = "FILLED"
        /\ orders[evaluated[k]].status = "OPEN"
        /\ Unmet(orders[evaluated[k]], market)
        /\ open_orders[1] = evaluated[k]

\* cash and holdings after the first n fills of the loop, from the orders
RECURSIVE CashAfterFills(_)
CashAfterFills(n) ==
    IF n = 0 THEN MInt(InitialCapital)
    ELSE LET o == orders[filled_on[n][1]]
             amount == MInt(o.quantity * o.fill_price)
         IN  IF o.side = "BUY"
             THEN MSub(MSub(CashAfterFills(n - 1), amount), o.fees)
             ELSE MSub(MAdd(CashAfterFills(n - 1), amount), o.fees)

RECURSIVE HoldingsAfterFills(_)
HoldingsAfterFills(n) ==
    IF n = 0 THEN 0
    ELSE LET o == orders[filled_on[n][1]]
         IN  IF o.side = "BUY"
             THEN HoldingsAfterFills(n - 1) + o.quantity
             ELSE HoldingsAfterFills(n - 1) - o.quantity

\* C10: the loop appends exactly one equity point per row, in row order:
\* after k rows the curve has k points, the i-th dated i.  A point is
\* appended when the row's fills have all been applied to cash and
\* holdings, and it equals cash + holdings * close of the row.
C10_EquityCurve ==
    /\ [](/\ Len(portfolio_history) =
                IF pc \in {"process", "drain"} THEN date - 1 ELSE date
          /\ \A i \in 1..Len(portfolio_history) :
                portfolio_history[i].date = i)
    /\ [][Len(portfolio_history') # Len(portfolio_history) =>
            /\ portfolio_history' = Append(portfolio_history,
                  [date |-> date,
                   equity |-> MAdd(cash, MInt(holdings * row.bar.close))])
            /\ filled_orders = <<>>
            /\ cash = CashAfterFills(Len(filled_on))
            /\ holdings = HoldingsAfterFills(Len(filled_on))
            /\ UNCHANGED <<cash, holdings, row, date, orders, filled_on,
                           filled_orders>>]_vars

\* the point of a row whose fill has left shares in the portfolio
C10_Witness ==
    /\ pc = "trade"
    /\ holdings > 0
    /\ Len(portfolio_history) = date
    /\ \E i \in 1..Len(filled_on) : filled_on[i][2] = date
    /\ portfolio_history[date].equity # cash

\* the step is the trading logic of a row
IsTradeStep == pc = "trade" /\ pc' = "loop"

\* the step applies the fill of a SELL order to the portfolio
IsSellFillStep ==
    /\ pc = "drain" /\ filled_orders # <<>>
    /\ filled_orders' = Tail(filled_orders)
    /\ orders[Head(filled_orders)].side = "SELL"

\* C11: in the loop a signal of -1 with zero holdings submits no order; the
\* only SELL orders ever submitted are MARKET SELLs for the current
\* holdings, on a signal of -1 while holdings > 0; holdings are >= 0 in
\* every state and are zero after every SELL fill.
C11_LongOnly ==
    /\ [](holdings >= 0)
    /\ [][/\ IsTradeStep =>
              /\ (row.signal = -1 /\ holdings = 0) => orders' = orders
              /\ \A id \in (Len(orders) + 1)..Len(orders') :
                    orders'[id].side = "SELL" =>
                        /\ orders'[id].order_type = "MARKET"
                        /\ orders'[id].quantity = holdings
                        /\ orders'[id].status = "OPEN"
                        /\ row.signal = -1
                        /\ holdings > 0
          /\ IsSellFillStep => holdings' = 0]_vars

\* a row with signal -1 that found the position closed by a SELL fill and
\* submitted nothing
C11_Witness ==
    /\ pc = "loop" /\ date > 0
    /\ row.signal = -1
    /\ holdings = 0
    /\ trades # <<>>
    /\ \A i \in 1..Len(submitted_on) : submitted_on[i] # date

\* the fills of SELL orders the loop has applied to the portfolio
SellFillsApplied ==
    {i \in 1..Len(filled_on) :
        /\ orders[filled_on[i][1]].side = "SELL"
        /\ ~InList(filled_orders, filled_on[i][1])}

\* C12: the ledger grows only when the fill of a SELL order is applied, by
\* one TradeRecord, and that fill brings the holdings back to zero; applying
\* the fill of a BUY order leaves the ledger alone; the ledger has as many
\* TradeRecords as SELL fills have been applied.
C12_RecordPerClosingSell ==
    /\ [](Len(trades) = Cardinality(SellFillsApplied))
    /\ [][/\ trades' # trades =>
              /\ IsSellFillStep
              /\ holdings > 0 /\ holdings' = 0
              /\ Len(trades') = Len(trades) + 1
              /\ SubSeq(trades', 1, Len(trades)) = trades
              /\ trades'[Len(trades')].quantity =
                    orders[Head(filled_orders)].quantity
          /\ (/\ pc = "drain" /\ filled_orders # <<>>
              /\ filled_orders' = Tail(filled_orders)
              /\ orders[Head(filled_orders)].side = "BUY") =>
                  trades' = trades /\ holdings' > 0]_vars

\* a BUY fill applied after a position was closed: a record in the ledger
\* and shares in the portfolio
C12_Witness ==
    /\ Len(trades) >= 1
    /\ holdings > 0
    /\ Cardinality(SellFillsApplied) = 1

\* C13: when the trading logic of a row calls _place_entry_order and the
\* compliance check rejects the trade or the sizer returns a quantity <= 0,
\* the row creates no order and changes nothing in the portfolio, and the
\* loop goes on to the next row; the run is never left by an exception.
C13_SuppressedEntry ==
    /\ [](pc # "aborted")
    /\ [][(/\ pc = "trade" /\ pc' # pc
           /\ IsEntry(OMState, holdings, row)
           /\ \/ ~EntryCheck(equity, holdings, row.bar.close).allowed
              \/ EntryQuantity(equity, row.bar.close) <= 0) =>
                /\ pc' = "loop"
                /\ UNCHANGED <<orders, open_orders, filled_orders, cash,
                               equity, holdings, trades, portfolio_history,
                               date, row>>]_vars

\* a row whose entry the compliance check has rejected, after a row whose
\* entry the sizer has sized at nothing
C13_Witness ==
    /\ pc = "loop" /\ date > 0
    /\ IsEntry(OMState, holdings, row)
    /\ ~EntryCheck(equity, holdings, row.bar.close).allowed
    /\ \E p \in PriceLevels :
          /\ EntryCheck(equity, holdings, p).allowed
          /\ EntryQuantity(equity, p) <= 0

\* the call of the method fn has returned
Returned(fn) == call.fn = fn /\ result # <<>>

\* the limits of the gate of the call, from its config and the defaults
MaxPositions ==
    IF "max_positions" \in DOMAIN call.config
    THEN call.config["max_positions"] ELSE 10
MaxDrawdown ==
    IF "max_drawdown_limit" \in DOMAIN call.config
    THEN call.config["max_drawdown_limit"] ELSE 1500
MaxSector ==
    IF "max_sector_exposure" \in DOMAIN call.config
    THEN call.config["max_sector_exposure"] ELSE 3000

\* C14: check_trade_permission rejects an ENTRY whenever the number of
\* active positions is >= max_positions, also when it equals max_positions
\* (10 of 10 under the default limit), and the reason names the position
\* limit.
C14_PositionLimit ==
    (/\ Returned("check_trade_permission")
     /\ call.proposed_trade.side = "ENTRY"
     /\ call.current_portfolio.positions >= MaxPositions) =>
        /\ ~result[1].allowed
        /\ result[1].reason = "Max positions reached"

\* an ENTRY rejected with 10 of 10 positions and nothing else amiss
C14_Witness ==
    /\ Returned("check_trade_permission")
    /\ call.proposed_trade.side = "ENTRY"
    /\ MaxPositions = 10
    /\ call.current_portfolio.positions = 10
    /\ call.current_portfolio.current_drawdown = 0
    /\ call.proposed_trade.capital_impact = 0
    /\ ~result[1].allowed

\* the three checks of the gate on the arguments of the call; the third
\* one, for a proposal that names a sector, in whole price units:
\* allocation + impact / equity > limit
PositionCheckFails ==
    /\ call.proposed_trade.side = "ENTRY"
    /\ call.current_portfolio.positions >= MaxPositions
DrawdownCheckFails ==
    call.current_portfolio.current_drawdown > MaxDrawdown
SectorCheckFails ==
    /\ call.proposed_trade.sector # ""
    /\ call.proposed_trade.capital_impact * RatioScale >
          (MaxSector - call.current_portfolio.sector_allocation)
              * call.current_portfolio.total_equity.w

\* C15: check_trade_permission returns the rejection of the first check
\* that fails, in the order position count (for an ENTRY), drawdown (for
\* any trade, exits too), sector exposure (for a proposal that names a
\* sector); it allows the trade iff none of the three fails.
C15_CheckOrder ==
    Returned("check_trade_permission") =>
        /\ result[1].allowed <=>
              ~(PositionCheckFails \/ DrawdownCheckFails \/ SectorCheckFails)
        /\ result[1].reason =
              IF PositionCheckFails THEN "Max positions reached"
              ELSE IF DrawdownCheckFails
                   THEN "Portfolio in critical drawdown"
              ELSE IF SectorCheckFails THEN "Sector Limit Exceeded"
              ELSE "Compliance Checks Passed"

\* an exit rejected for the drawdown although its sector exposure is over
\* the limit too
C15_Witness ==
    /\ Returned("check_trade_permission")
    /\ call.proposed_trade.side = "EXIT"
    /\ call.current_portfolio.positions >= MaxPositions
    /\ DrawdownCheckFails /\ SectorCheckFails
    /\ result[1] = [allowed |-> FALSE,
                    reason |-> "Portfolio in critical drawdown"]

\* C16: the sizer never leverages above 1x capital.  For a capital >= 0, a
\* price > 0 and a daily volatility > 0 the quantity is >= 0 and quantity *
\* price <= capital; however far the volatility is below the target the
\* scalar is 1.0 and no more, the quantity being floor(capital / price).
\* For a daily volatility <= 0 the quantity is 0.
C16_NoLeverage ==
    Returned("calculate_quantity") =>
        /\ call.recent_volatility_daily <= 0 => result[1] = 0
        /\ (/\ MLe(MZero, call.capital) /\ call.price > 0
            /\ call.recent_volatility_daily > 0) =>
                /\ result[1] >= 0
                /\ result[1] * call.price <= call.capital.w
                /\ 100 * call.recent_volatility_daily <= call.target_vol =>
                        result[1] = call.capital.w \div call.price

\* a call with a volatility of 0.01%, sized at all of the capital
C16_Witness ==
    /\ Returned("calculate_quantity")
    /\ call.recent_volatility_daily = 1
    /\ call.capital = MInt(5 * PriceTick)
    /\ result[1] > 0
    /\ result[1] * call.price = call.capital.w

\* the call of scenario 3: target 0.20, capital 1,000,000 rupees, price 2500
\* rupees, daily volatility 0.02
SizerScenario ==
    /\ call.fn = "calculate_quantity"
    /\ call.target_vol = 2000
    /\ call.capital = MInt(1000000 * UnitsPerRupee)
    /\ call.price = 2500 * UnitsPerRupee
    /\ call.recent_volatility_daily = 200

\* C17 as stated: the call of scenario 3 returns the quantity 252.
C17_Quantity252 ==
    (SizerScenario /\ result # <<>>) => result[1] = 252

\* C17 as amended: the call of scenario 3 returns the quantity 251, which is
\* floor(capital * min((0.20 / sqrt(252)) / 0.02, 1.0) / price), that is
\* floor(4000 / sqrt(252)): 251^2 * 252 <= 4000^2 < 252^2 * 252.
C17_Quantity251 ==
    (SizerScenario /\ result # <<>>) =>
        /\ result[1] = 251
        /\ result[1] * result[1] * 252 <= 4000 * 4000
        /\ (result[1] + 1) * (result[1] + 1) * 252 > 4000 * 4000

\* the call of scenario 3 has returned
C17_Witness == SizerScenario /\ result # <<>> /\ result[1] > 0

\* C18: for every price > 0 and base_bps >= 0 the fill price of a BUY is >=
\* the target price and the fill price of a SELL is <= the target price,
\* whatever volatility is given or none: slippage never improves a fill.
C18_SlippageAgainst ==
    (/\ Returned("calculate_fill_price")
     /\ call.target_price > 0 /\ call.base_bps >= 0) =>
        /\ call.side = "BUY" => result[1] >= call.target_price
        /\ call.side = "SELL" => result[1] <= call.target_price
        /\ call.base_bps = 0 => result[1] = call.target_price

\* a BUY filled above its target at twice the base slippage, for a
\* volatility above 1%
C18_Witness ==
    /\ Returned("calculate_fill_price")
    /\ call.side = "BUY"
    /\ call.base_bps = BaseBps
    /\ call.volatility = 150
    /\ result[1] * RatioScale =
          call.target_price * (RatioScale + 2 * BaseBps)

\* a money amount in hundredths of a rupee, rounded to the nearest
Paise(a) ==
    (100 \div UnitsPerRupee) * a.w
        + ((100 \div UnitsPerRupee) * a.f + FeeScale \div 2) \div FeeScale

\* the regulatory fee of a returned TradeCost, which its breakdown leaves
\* out: the total less the components listed
RegulatoryFee(cost) ==
    MSub(cost.total_cost,
         MAdd(MAdd(MAdd(MAdd(cost.breakdown.Brokerage, cost.breakdown.STT),
                        cost.breakdown.Exchange_Charges),
                   cost.breakdown.Stamp_Duty),
              cost.breakdown.GST))

\* C19: the total of the cost model is brokerage + transaction tax +
\* exchange fee + regulatory fee + stamp duty + consumption tax, where the
\* brokerage is min(0.0003 * turnover, 20 rupees), the regulatory fee is
\* 0.000001 * turnover, the stamp duty is charged on a BUY only and the
\* consumption tax is 0.18 * (brokerage + exchange fee + regulatory fee).
\* For a turnover of 100,000 rupees, BUY, EQUITY the components round to
\* 20, 100, 3.45, 0.10, 15 and 4.24 rupees and the total to 142.79.
C19_CostBreakdown ==
    Returned("calculate") =>
        LET b == result[1].breakdown
            fee == RegulatoryFee(result[1])
        IN  /\ b.Turnover = call.price * call.quantity
            /\ b.Total_Charges = result[1].total_cost
            /\ b.Brokerage =
                  IF 3 * b.Turnover <= 10000 * BrokeragePerOrder
                  THEN MFrac(b.Turnover, 3, 10000)
                  ELSE MInt(BrokeragePerOrder)
            /\ fee = MFrac(b.Turnover, 1, 1000000)
            /\ b.Stamp_Duty =
                  IF call.side = "BUY" THEN MFrac(b.Turnover, 15, 100000)
                  ELSE MZero
            /\ b.GST = MTimesFrac(MAdd(MAdd(b.Brokerage, b.Exchange_Charges),
                                       fee), 18, 100)
            /\ (/\ b.Turnover = 100000 * UnitsPerRupee
                /\ call.side = "BUY" /\ call.asset_type = "EQUITY") =>
                    /\ Paise(b.Brokerage) = 2000
                    /\ Paise(b.STT) = 10000
                    /\ Paise(b.Exchange_Charges) = 345
                    /\ Paise(fee) = 10
                    /\ Paise(b.Stamp_Duty) = 1500
                    /\ Paise(b.GST) = 424
                    /\ Paise(result[1].total_cost) = 14279

\* the cost of a BUY of 100,000 rupees of EQUITY, with a stamp duty and a
\* capped brokerage
C19_Witness ==
    /\ Returned("calculate")
    /\ call.price * call.quantity = 100000 * UnitsPerRupee
    /\ call.side = "BUY" /\ call.asset_type = "EQUITY"
    /\ result[1].breakdown.Brokerage = MInt(BrokeragePerOrder)
    /\ MLt(MZero, result[1].breakdown.Stamp_Duty)

\* C20: two runs of the loop over the same rows, with the same limits, end
\* with the same equity curve and the same ledger, the entry and exit
\* timestamps of the TradeRecords included.
C20_DeterministicReplay ==
    (pc = "done" /\ date = Len(replay.df)) =>
        /\ portfolio_history = replay.portfolio_history
        /\ trades = replay.portfolio.trades

(***************************************************************************)
(* C21: after any sequence of place_order calls on newly created orders    *)
(* and process_orders calls, every order in open_orders has status OPEN,   *)
(* every order in filled_orders has status FILLED, no order is in both     *)
(* lists, no order is in either list twice, and an order that is FILLED or *)
(* REJECTED is never changed again.                                        *)
(***************************************************************************)
Count(list, x) == Cardinality({i \in 1..Len(list) : list[i] = x})

C21_OrderLifecycle ==
    /\ [](/\ \A i \in 1..Len(open_orders) :
                orders[open_orders[i]].status = "OPEN"
          /\ \A i \in 1..Len(filled_orders) :
                orders[filled_orders[i]].status = "FILLED"
          /\ \A id \in 1..Len(orders) :
                /\ Count(open_orders, id) + Count(filled_orders, id) <= 1
                /\ orders[id].status = "OPEN" <=> InList(open_orders, id)
                /\ orders[id].status = "FILLED" <=> InList(filled_orders, id)
                /\ orders[id].status \in {"OPEN", "FILLED", "REJECTED"})
    /\ [][\A id \in 1..Len(orders) :
             orders[id].status \in {"FILLED", "REJECTED"}
                => /\ orders'[id] = orders[id]
                   /\ Count(filled_orders', id) = Count(filled_orders, id)
                   /\ ~InList(open_orders', id)]_vars

\* an order was filled, and a later process_orders call went over the book
\* and left the second order open
C21_Witness ==
    /\ filled_orders = <<1>>
    /\ open_orders = <<2>>
    /\ evaluated = <<2>>
    /\ orders[1].status = "FILLED"
    /\ orders[2].status = "OPEN"

(***************************************************************************)
(* Drawdown of the equity curve (PerformanceMetrics.calculate_max_drawdown)*)
(***************************************************************************)
\* a * n for a money amount a and a natural n
RECURSIVE MTimes(_, _)
MTimes(a, n) ==
    IF n = 0 THEN MZero
    ELSE LET h == MTimes(a, n \div 2)
         IN  MAdd(MAdd(h, h), IF n % 2 = 1 THEN a ELSE MZero)

\* rolling_max = portfolio_values.cummax(), at the last point of the curve
RECURSIVE RollingMax(_)
RollingMax(history) ==
    IF Len(history) = 1 THEN history[1].equity
    ELSE LET before == RollingMax(SubSeq(history, 1, Len(history) - 1))
             last == history[Len(history)].equity
         IN  IF MLe(last, before) THEN before ELSE last

\* the decline (rolling_max - value) / rolling_max of the last point is
\* above limit / RatioScale
DrawdownAbove(history, limit) ==
    LET peak == RollingMax(history)
        value == history[Len(history)].equity
    IN  /\ MLt(MZero, peak)
        /\ MLt(MTimes(peak, limit), MTimes(MSub(peak, value), RatioScale))

\* the trading logic of the row submits a BUY order
SubmitsEntry ==
    /\ IsTradeStep
    /\ Len(orders') = Len(orders) + 1
    /\ orders'[Len(orders')].side = "BUY"
    /\ orders'[Len(orders')].order_type = "MARKET"
    /\ InList(open_orders', Len(orders'))

\* C22: in the loop no MARKET BUY order is submitted on a row at which the
\* drawdown of the equity curve, the row's own point included, is above
\* max_drawdown_limit.
C22_NoEntryInDrawdown ==
    [][SubmitsEntry =>
          ~DrawdownAbove(portfolio_history, Config.max_drawdown_limit)]_vars

\* the sum of net_pnl over the TradeRecords of a ledger
RECURSIVE NetPnlSum(_)
NetPnlSum(ledger) ==
    IF ledger = <<>> THEN MZero
    ELSE MAdd(NetPnlSum(SubSeq(ledger, 1, Len(ledger) - 1)),
              ledger[Len(ledger)].net_pnl)

\* C23: whenever the loop holds no shares and has no order open, cash less
\* the initial capital is the sum of net_pnl over the TradeRecords of the
\* ledger.
C23_LedgerMatchesCash ==
    (holdings = 0 /\ open_orders = <<>>) =>
        MSub(cash, MInt(InitialCapital)) = NetPnlSum(trades)

\* C24: in the loop open_orders holds at most one order in every state;
\* filled_orders is empty when the equity point of a row is appended;
\* open_orders is empty right after process_orders on every row; the
\* trading logic of a row submits at most one order, only when no order is
\* open, and only MARKET orders for the symbol of the row's candle.
C24_OneOrderInFlight ==
    /\ [](Len(open_orders) <= 1)
    /\ [][/\ portfolio_history' # portfolio_history =>
                /\ filled_orders = <<>>
                /\ filled_orders' = <<>>
          /\ (pc = "process" /\ pc' # pc) =>
                /\ open_orders' = <<>>
                /\ Len(filled_orders') <= 1
          /\ pc = "trade" =>
                /\ Len(orders') <= Len(orders) + 1
                /\ Len(orders') > Len(orders) => open_orders = <<>>
                /\ \A id \in (Len(orders) + 1)..Len(orders') :
                      /\ orders'[id].order_type = "MARKET"
                      /\ orders'[id].symbol \in DOMAIN market
                      /\ orders'[id].symbol = Ticker
                      /\ open_orders' = <<id>>]_vars

\* a row that saw the order of the row before it filled, and has submitted
\* the next order
C24_Witness ==
    /\ pc = "loop" /\ date >= 2
    /\ Len(open_orders) = 1
    /\ submitted_on[open_orders[1]] = date
    /\ \E i \in 1..Len(filled_on) :
          /\ filled_on[i][2] = date
          /\ submitted_on[filled_on[i][1]] = date - 1
    /\ Len(portfolio_history) = date

====
